---- MODULE Spec2Model ----
(***************************************************************************)
(* TruthLens claim pipeline (src/main_backup.py): extract_claims,          *)
(* verify_claim, analyze_source, calculate_source_credibility and the      *)
(* process-wide claim store claims_db.                                     *)
(*                                                                         *)
(* Python strings that the code inspects are sequences of one-character    *)
(* strings, so that lower(), strip(), split(), the `in` substring test and *)
(* the regular expressions are computed, not assumed.  Python floats are   *)
(* IEEE 754 doubles, with +, *, /, the comparisons and round() rounding as *)
(* Python's do.  Timestamps (datetime.now()) are not modelled: no branch   *)
(* of the code reads them.                                                 *)
(***************************************************************************)
EXTENDS Integers, Sequences, FiniteSets, TLC

(***************************************************************************)
(* Python string primitives                                                *)
(***************************************************************************)
UpperAlpha == <<"A","B","C","D","E","F","G","H","I","J","K","L","M",
                "N","O","P","Q","R","S","T","U","V","W","X","Y","Z">>

LowerAlpha == <<"a","b","c","d","e","f","g","h","i","j","k","l","m",
                "n","o","p","q","r","s","t","u","v","w","x","y","z">>

\* Texts are strings over the characters U+0000..U+00FF.  The upper-case
\* letters among U+00C0..U+00DE (U+00D7 is no letter) and, in the same order,
\* their lower-case letters among U+00E0..U+00FE
UpperLatin == <<"À","Á","Â","Ã","Ä","Å","Æ","Ç","È","É","Ê","Ë","Ì","Í","Î","Ï","Ð","Ñ","Ò","Ó","Ô","Õ","Ö","Ø","Ù","Ú","Û","Ü","Ý","Þ">>

LowerLatin == <<"à","á","â","ã","ä","å","æ","ç","è","é","ê","ë","ì","í","î","ï","ð","ñ","ò","ó","ô","õ","ö","ø","ù","ú","û","ü","ý","þ">>

\* the decimal digits: the regex class \d
Digits == {"0","1","2","3","4","5","6","7","8","9"}

Range(s) == {s[i] : i \in DOMAIN s}

\* the characters str.strip() removes and the regex class \s matches: space,
\* \t, \n, \r, \f, and U+000B, U+001C..U+001F, U+0085 and U+00A0
Whitespace == {" ", "\n", "\t", "\r", "\f", "", "", "", "", "", "", " "}

\* the regex class [a-z]
LowerLetters == Range(LowerAlpha)

UpperLetters == Range(UpperAlpha)

\* the regex class \w of a str pattern: the ASCII letters, digits and "_",
\* and the letters and numerals of U+0080..U+00FF
WordChars ==
    LowerLetters \cup UpperLetters \cup Digits \cup {"_"} \cup
    {"ª","²","³","µ","¹","º","¼","½","¾","À","Á","Â","Ã","Ä","Å","Æ","Ç","È","É","Ê","Ë","Ì","Í","Î","Ï","Ð","Ñ","Ò","Ó","Ô","Õ","Ö","Ø","Ù","Ú","Û",
     "Ü","Ý","Þ","ß","à","á","â","ã","ä","å","æ","ç","è","é","ê","ë","ì","í","î","ï","ð","ñ","ò","ó","ô","õ","ö","ø","ù","ú","û","ü","ý","þ","ÿ"}

IsWordChar(c) == c \in WordChars

\* the lower-case letter of each upper-case letter
LowerOf ==
    [c \in Range(UpperAlpha \o UpperLatin) |->
        (LowerAlpha \o LowerLatin)[CHOOSE i \in DOMAIN (UpperAlpha \o UpperLatin) :
                                     (UpperAlpha \o UpperLatin)[i] = c]]

LowerChar(c) == IF c \in DOMAIN LowerOf THEN LowerOf[c] ELSE c

\* str.lower()
Lower(s) == SubSeq([i \in DOMAIN s |-> LowerChar(s[i])], 1, Len(s))

\* s[i:] starts with p (i is a 1-based position)
StartsWithAt(s, p, i) ==
    /\ i >= 1
    /\ i + Len(p) - 1 <= Len(s)
    /\ \A k \in DOMAIN p : s[i + k - 1] = p[k]

\* Python's `p in s` on strings
Contains(s, p) == \E i \in 1..(Len(s) - Len(p) + 1) : StartsWithAt(s, p, i)

\* s[:n]
Prefix(s, n) == SubSeq(s, 1, IF Len(s) < n THEN Len(s) ELSE n)

\* s[i:] for a 1-based position i
From(s, i) == SubSeq(s, i, Len(s))

RECURSIVE LStrip(_)
LStrip(s) == IF s # <<>> /\ Head(s) \in Whitespace THEN LStrip(Tail(s)) ELSE s

RECURSIVE RStrip(_)
RStrip(s) ==
    IF s # <<>> /\ s[Len(s)] \in Whitespace
    THEN RStrip(SubSeq(s, 1, Len(s) - 1))
    ELSE s

\* str.strip()
Strip(s) == RStrip(LStrip(s))

\* the k-th smallest element of a set of numbers
Nth(S, k) == CHOOSE i \in S : Cardinality({j \in S : j < i}) = k - 1

\* the piece of s between the (k-1)-th and the k-th separator position
Piece(s, cuts, k) ==
    SubSeq(s, (IF k = 1 THEN 0 ELSE Nth(cuts, k - 1)) + 1,
              (IF k > Cardinality(cuts) THEN Len(s) + 1 ELSE Nth(cuts, k)) - 1)

SplitAt(s, cuts) == [k \in 1..(Cardinality(cuts) + 1) |-> Piece(s, cuts, k)]

\* str.split(c) / re.split('[...]', s) on one-character separators
SplitChars(s, seps) == SplitAt(s, {i \in DOMAIN s : s[i] \in seps})

\* str.split(sep) for a separator string of any length
RECURSIVE SplitStrRec(_, _, _)
SplitStrRec(s, sep, cur) ==
    IF s = <<>> THEN <<cur>>
    ELSE IF StartsWithAt(s, sep, 1)
         THEN <<cur>> \o SplitStrRec(From(s, Len(sep) + 1), sep, <<>>)
         ELSE SplitStrRec(Tail(s), sep, Append(cur, Head(s)))

SplitStr(s, sep) == SplitStrRec(s, sep, <<>>)

\* number of leading characters of s that are in the class cls
RECURSIVE RunLen(_, _)
RunLen(s, cls) == IF s # <<>> /\ Head(s) \in cls THEN 1 + RunLen(Tail(s), cls) ELSE 0


(***************************************************************************)
(* String literals of the source, spelled as character sequences            *)
(***************************************************************************)
\* 'is'
StrIs == <<"i","s">>

\* 'are'
StrAre == <<"a","r","e">>

\* 'was'
StrWas == <<"w","a","s">>

\* 'were'
StrWere == <<"w","e","r","e">>

\* 'ing'
StrIng == <<"i","n","g">>

\* 'ed'
StrEd == <<"e","d">>

\* 'cause'
StrCause == <<"c","a","u","s","e">>

\* 'lead to'
StrLeadTo == <<"l","e","a","d"," ","t","o">>

\* 'leads to'
StrLeadsTo == <<"l","e","a","d","s"," ","t","o">>

\* 'according to'
StrAccordingTo == <<"a","c","c","o","r","d","i","n","g"," ","t","o">>

\* 'study'
StrStudy == <<"s","t","u","d","y">>

\* 'research'
StrResearch == <<"r","e","s","e","a","r","c","h">>

\* 'all'
StrAll == <<"a","l","l">>

\* 'none'
StrNone == <<"n","o","n","e">>

\* 'every'
StrEvery == <<"e","v","e","r","y">>

\* 'always'
StrAlways == <<"a","l","w","a","y","s">>

\* 'never'
StrNever == <<"n","e","v","e","r">>

\* 'vaccine'
StrVaccine == <<"v","a","c","c","i","n","e">>

\* 'autism'
StrAutism == <<"a","u","t","i","s","m">>

\* 'No claims found.'
StrNoClaimsFound == <<"N","o"," ","c","l","a","i","m","s"," ","f","o","u","n","d",".">>

\* 'Vaccines cause autism.'
StrVaccinesCauseAutism == <<"V","a","c","c","i","n","e","s"," ","c","a","u","s","e"," ","a","u","t","i","s","m",".">>

\* 'Unverified'
StrUnverified == <<"U","n","v","e","r","i","f","i","e","d">>

\* 'True'
StrTrue == <<"T","r","u","e">>

\* 'False'
StrFalse == <<"F","a","l","s","e">>

\* 'Partially True'
StrPartiallyTrue == <<"P","a","r","t","i","a","l","l","y"," ","T","r","u","e">>

\* '...'
StrEllipsis == <<".",".",".">>

\* 'Multiple large studies have found no link between vaccines and autism.'
StrEvidenceNoLink == <<"M","u","l","t","i","p","l","e"," ","l","a","r","g","e"," ","s","t","u","d","i","e","s"," ","h","a","v","e"," ","f","o","u","n","d"," ","n","o"," ","l","i","n","k"," ","b","e","t","w","e","e","n"," ","v","a","c","c","i","n","e","s"," ","a","n","d"," ","a","u","t","i","s","m",".">>

\* 'The original study suggesting a link was retracted due to serious procedural and ethical concerns.'
StrEvidenceRetracted == <<"T","h","e"," ","o","r","i","g","i","n","a","l"," ","s","t","u","d","y"," ","s","u","g","g","e","s","t","i","n","g"," ","a"," ","l","i","n","k"," ","w","a","s"," ","r","e","t","r","a","c","t","e","d"," ","d","u","e"," ","t","o"," ","s","e","r","i","o","u","s"," ","p","r","o","c","e","d","u","r","a","l"," ","a","n","d"," ","e","t","h","i","c","a","l"," ","c","o","n","c","e","r","n","s",".">>

\* '"status":'
StrStatusKey == <<"\"","s","t","a","t","u","s","\"",":">>

\* '"confidence_score":'
StrConfidenceKey == <<"\"","c","o","n","f","i","d","e","n","c","e","_","s","c","o","r","e","\"",":">>

\* '//'
StrSlashSlash == <<"/","/">>

\* '/'
StrSlash == <<"/">>

\* '\n\n'
StrParagraphBreak == <<"\n","\n">>

(***************************************************************************)
(* Python floats: IEEE 754 binary64 numbers, kept as float.hex() writes    *)
(* them.  [sign, digits, exp] is sign * 0x d1.d2...d14 * 2^exp: 14         *)
(* hexadecimal digits of which the first is 1, so 0.1 = 0x1.999999999999ap-4 *)
(* is [1, <<1,9,9,9,9,9,9,9,9,9,9,9,9,10>>, -4]; zero has all digits 0 and *)
(* exp 0.  The values of the program lie far from the subnormal and the    *)
(* overflow range, which are left out, as is the sign of zero.             *)
(***************************************************************************)
\* number of binary digits of k
RECURSIVE BitLength(_)
BitLength(k) == IF k = 0 THEN 0 ELSE 1 + BitLength(k \div 2)

Reversed(s) == [i \in 1..Len(s) |-> s[Len(s) + 1 - i]]

\* Natural numbers of any size, as sequences of hexadecimal digits with the
\* least significant first; high zeros are allowed
BigDigit(a, i) == IF i \in DOMAIN a THEN a[i] ELSE 0

BigIsZero(a) == \A i \in DOMAIN a : a[i] = 0

\* the digits of the number whose i-th digit position holds cols[i] >= 0
RECURSIVE Carry(_, _, _)
Carry(cols, i, c) ==
    IF i > Len(cols)
    THEN IF c = 0 THEN <<>> ELSE <<c % 16>> \o Carry(cols, i, c \div 16)
    ELSE <<(cols[i] + c) % 16>> \o Carry(cols, i + 1, (cols[i] + c) \div 16)

ToBig(n) == Carry(<<n>>, 1, 0)

RECURSIVE BigToInt(_)
BigToInt(a) == IF a = <<>> THEN 0 ELSE Head(a) + 16 * BigToInt(Tail(a))

BigAdd(a, b) ==
    Carry([i \in 1..(IF Len(a) > Len(b) THEN Len(a) ELSE Len(b)) |->
               BigDigit(a, i) + BigDigit(b, i)], 1, 0)

\* a - b for a >= b
RECURSIVE Borrow(_, _, _, _)
Borrow(a, b, i, c) ==
    IF i > Len(a) THEN <<>>
    ELSE IF a[i] - BigDigit(b, i) - c < 0
         THEN <<a[i] - BigDigit(b, i) - c + 16>> \o Borrow(a, b, i + 1, 1)
    ELSE <<a[i] - BigDigit(b, i) - c>> \o Borrow(a, b, i + 1, 0)

BigSub(a, b) == Borrow(a, b, 1, 0)

BigLt(a, b) ==
    \E i \in DOMAIN b :
        /\ BigDigit(a, i) < b[i]
        /\ \A j \in (DOMAIN a \cup DOMAIN b) : j > i => BigDigit(a, j) = BigDigit(b, j)

\* sum of a[i] * b[k + 1 - i] over i
RECURSIVE Column(_, _, _, _)
Column(a, b, k, i) ==
    IF i > Len(a) THEN 0 ELSE a[i] * BigDigit(b, k + 1 - i) + Column(a, b, k, i + 1)

BigMul(a, b) == Carry([k \in 1..(Len(a) + Len(b)) |-> Column(a, b, k, 1)], 1, 0)

\* a * k for an integer 0 <= k < 2^26
BigScale(a, k) == Carry([i \in DOMAIN a |-> a[i] * k], 1, 0)

\* a * 2^k
BigShl(a, k) == [i \in 1..(k \div 4) |-> 0] \o BigScale(a, 2 ^ (k % 4))

\* a \div 2^k
BigShr(a, k) ==
    [i \in 1..(Len(a) - (k \div 4)) |->
        (a[i + (k \div 4)] \div (2 ^ (k % 4)))
        + (BigDigit(a, i + 1 + (k \div 4)) % (2 ^ (k % 4))) * (2 ^ (4 - (k % 4)))]

\* a % 2^k = 0
BigLowZero(a, k) ==
    /\ \A i \in DOMAIN a : i <= (k \div 4) => a[i] = 0
    /\ BigDigit(a, (k \div 4) + 1) % (2 ^ (k % 4)) = 0

\* binary digit i of a, digit 0 being the lowest
BigBit(a, i) == (BigDigit(a, (i \div 4) + 1) \div (2 ^ (i % 4))) % 2

BigTop(a) == CHOOSE i \in DOMAIN a : a[i] # 0 /\ \A j \in DOMAIN a : j > i => a[j] = 0

\* number of binary digits of a # 0
BigBitLength(a) == 4 * (BigTop(a) - 1) + BitLength(a[BigTop(a)])

Float(sign, digits, exp) == [sign |-> sign, digits |-> digits, exp |-> exp]

FloatZero == Float(1, [i \in 1..14 |-> 0], 0)

IsZero(x) == BigIsZero(x.digits)

\* the 53-digit binary integer m with x = sign * m * 2^(exp - 52)
Mantissa(x) == Reversed(x.digits)

\* the float of sign * m * 2^e for m of exactly 53 or 54 binary digits, the
\* latter being 2^53 (a rounding that carried out of the mantissa)
Packed(sign, m, e) ==
    IF BigBitLength(m) = 54
    THEN Float(sign, <<1>> \o [i \in 1..13 |-> 0], e + 53)
    ELSE Float(sign, Reversed([i \in 1..14 |-> BigDigit(m, i)]), e + 52)

\* m \div 2^k rounded to nearest, ties to even; sticky tells that the value
\* rounded exceeds m by a nonzero fraction of a unit
RoundedShr(m, k, sticky) ==
    IF /\ BigBit(m, k - 1) = 1
       /\ (sticky \/ ~BigLowZero(m, k - 1) \/ BigBit(m, k) = 1)
    THEN BigAdd(BigShr(m, k), <<1>>)
    ELSE BigShr(m, k)

\* the float nearest to sign * m * 2^e (ties to even)
RoundFloat(sign, m, e, sticky) ==
    IF BigIsZero(m) THEN FloatZero
    ELSE IF BigBitLength(m) <= 53
         THEN Packed(sign, BigShl(m, 53 - BigBitLength(m)), e - (53 - BigBitLength(m)))
    ELSE Packed(sign, RoundedShr(m, BigBitLength(m) - 53, sticky), e + BigBitLength(m) - 53)

\* the first k hexadecimal digits of r/d after the point, least significant
\* first, followed by the remainder; 0 <= r < d < 2^27
RECURSIVE Expansion(_, _, _)
Expansion(r, d, k) ==
    IF k = 0 THEN <<r>>
    ELSE Expansion((16 * r) % d, d, k - 1) \o <<(16 * r) \div d>>

\* the float nearest to n/d, n >= 0, frac being the expansion of its
\* fractional part to 22 hexadecimal digits: enough for the 53 binary digits
\* of the float and the digit that decides the rounding, since d < 2^27
PositiveFloat(n, d, frac) ==
    RoundFloat(1, Tail(frac) \o ToBig(n \div d), -88, Head(frac) # 0)

Negated(x) == IF IsZero(x) THEN x ELSE [x EXCEPT !.sign = -x.sign]

\* the float nearest to n/d, d > 0: what a decimal literal, float() of a
\* decimal string and the true division of two integers give
Fl(n, d) ==
    IF n < 0 THEN Negated(PositiveFloat(-n, d, Expansion((-n) % d, d, 22)))
    ELSE PositiveFloat(n, d, Expansion(n % d, d, 22))

DigitsLt(a, b) ==
    \E i \in DOMAIN a : a[i] < b[i] /\ \A j \in DOMAIN a : j < i => a[j] = b[j]

\* |x| < |y|
MagnitudeLt(x, y) ==
    /\ ~IsZero(y)
    /\ \/ IsZero(x)
       \/ x.exp < y.exp
       \/ x.exp = y.exp /\ DigitsLt(x.digits, y.digits)

\* x < y
FLt(x, y) ==
    IF x.sign = 1 /\ y.sign = 1 THEN MagnitudeLt(x, y)
    ELSE IF x.sign = -1 /\ y.sign = -1 THEN MagnitudeLt(y, x)
    ELSE x.sign = -1

\* min(a, b) and max(a, b): Python returns the first argument on a tie
FMin(a, b) == IF FLt(b, a) THEN b ELSE a

FMax(a, b) == IF FLt(a, b) THEN b ELSE a

\* x * y
FMul(x, y) ==
    IF IsZero(x) \/ IsZero(y) THEN FloatZero
    ELSE RoundFloat(x.sign * y.sign, BigMul(Mantissa(x), Mantissa(y)),
                    x.exp + y.exp - 104, FALSE)

\* the sum of sx * a * 2^e and sy * b * 2^e
SignedSum(sx, a, sy, b, e) ==
    IF sx = sy THEN RoundFloat(sx, BigAdd(a, b), e, FALSE)
    ELSE IF BigLt(a, b) THEN RoundFloat(sy, BigSub(b, a), e, FALSE)
    ELSE RoundFloat(sx, BigSub(a, b), e, FALSE)

\* x + y
FAdd(x, y) ==
    IF IsZero(x) THEN y
    ELSE IF IsZero(y) THEN x
    ELSE IF x.exp >= y.exp
         THEN SignedSum(x.sign, BigShl(Mantissa(x), x.exp - y.exp), y.sign, Mantissa(y),
                        y.exp - 52)
    ELSE SignedSum(x.sign, Mantissa(x), y.sign, BigShl(Mantissa(y), y.exp - x.exp),
                   x.exp - 52)

\* |x| * 100 rounded to an integer, ties to even, for |x| < 2^20
Hundredths(x) == BigToInt(RoundedShr(BigScale(Mantissa(x), 100), 52 - x.exp, FALSE))

\* round(x, 2): x is rounded to the nearest decimal of two places, ties to
\* even, and the float nearest to that decimal is returned
Round2(x) == Fl(x.sign * Hundredths(x), 100)

(***************************************************************************)
(* Program constants                                                       *)
(***************************************************************************)
\* len(sentence) < 10
MinSentenceLen == 10

\* main_content[:5000]
ContentCeiling == 5000

\* wiki_page.summary[:500]
SummaryCeiling == 500

\* evidence_matches[:3]
EvidenceCap == 3

\* \w{4,}
MinTermLen == 4

(***************************************************************************)
(* extract_claims                                                          *)
(***************************************************************************)
\* f"claim_{claim_id}"
ClaimIdStr(claim_id) == "claim_" \o ToString(claim_id)

\* the claim dictionaries built at the three places of extract_claims; the
\* "verification" key is absent until verify_claim attaches one (<<>> here)
NewClaim(claim_id, text, confidence, method, url) ==
    [id |-> ClaimIdStr(claim_id), text |-> text, confidence |-> confidence,
     extraction_method |-> method, source_url |-> url, verification |-> <<>>]

\* claims_db[claim["id"]] = claim, for every claim of the list in order
RECURSIVE StoreAll(_, _)
StoreAll(db, claims) ==
    IF claims = <<>> THEN db
    ELSE LET c == Head(claims)
             db1 == [k \in DOMAIN db \cup {c.id} |-> IF k = c.id THEN c ELSE db[k]]
         IN  StoreAll(db1, Tail(claims))

\* re.sub(r'^\d+\.\s*', '', claim_text)
StripNumbering(s) ==
    LET nd == RunLen(s, Digits)
    IN  IF nd >= 1 /\ nd < Len(s) /\ s[nd + 1] = "."
        THEN LET rest == From(s, nd + 2)
             IN  From(rest, RunLen(rest, Whitespace) + 1)
        ELSE s

\* the loop over the oracle's lines (lines 192-215)
RECURSIVE OracleClaims(_, _, _)
OracleClaims(lines, claim_id, url) ==
    IF lines = <<>> THEN <<>>
    ELSE LET claim_text == Strip(Head(lines))
         IN  IF claim_text = <<>> \/ claim_text = StrNoClaimsFound
             THEN OracleClaims(Tail(lines), claim_id, url)
             ELSE <<NewClaim(claim_id, StripNumbering(claim_text), Fl(85, 100), "gemini", url)>>
                  \o OracleClaims(Tail(lines), claim_id + 1, url)

\* the oracle stage of extract_claims (lines 167-219).  reply.kind is "raise"
\* (generate_content or response.text raised), "notext" (the response has no
\* text attribute) or "text"
ExtractOracleStage(key, reply, url) ==
    IF key /\ reply.kind = "text"
    THEN OracleClaims(SplitChars(Strip(reply.text), {"\n"}), 1, url)
    ELSE <<>>

\* (is|are|was|were)\s+([a-z]+ing|[a-z]+ed) matches at position i
ActionPatternAt(s, i) ==
    \E w \in {StrIs, StrAre, StrWas, StrWere} :
        /\ StartsWithAt(s, w, i)
        /\ LET j == i + Len(w)
               ws == RunLen(From(s, j), Whitespace)
               p == j + ws
               run == RunLen(From(s, p), LowerLetters)
           IN  /\ ws >= 1
               /\ \E e \in 1..run :
                      StartsWithAt(s, StrIng, p + e) \/ StartsWithAt(s, StrEd, p + e)

\* re.search(pattern, s) for the k-th entry of claim_patterns
PatternMatches(k, s) ==
    CASE k = 1 -> \E i \in 1..Len(s) : ActionPatternAt(s, i)
      [] k = 2 -> Contains(s, StrCause) \/ Contains(s, StrLeadTo) \/ Contains(s, StrLeadsTo)
      [] k = 3 -> Contains(s, StrAccordingTo) \/ Contains(s, StrStudy) \/ Contains(s, StrResearch)
      [] k = 4 -> \E w \in {StrAll, StrNone, StrEvery, StrAlways, StrNever} : Contains(s, w)

\* the conf_boost of the k-th entry of claim_patterns
PatternBoost == <<Fl(7, 10), Fl(8, 10), Fl(75, 100), Fl(9, 10)>>

\* confidence of a sentence that matches pattern k first: base 0.5, boosted,
\* capped at 0.95, rounded
HeuristicConfidence(k) == Round2(FMin(Fl(95, 100), FAdd(Fl(5, 10), PatternBoost[k])))

\* the loop over the sentences (lines 234-258)
RECURSIVE HeuristicClaims(_, _, _)
HeuristicClaims(sentences, claim_id, url) ==
    IF sentences = <<>> THEN <<>>
    ELSE LET sentence == Strip(Head(sentences))
             hits == {k \in DOMAIN PatternBoost : PatternMatches(k, Lower(sentence))}
         IN  IF Len(sentence) < MinSentenceLen \/ hits = {}
             THEN HeuristicClaims(Tail(sentences), claim_id, url)
             ELSE LET k == CHOOSE h \in hits : \A g \in hits : h <= g
                  IN  <<NewClaim(claim_id, sentence, HeuristicConfidence(k),
                                 "pattern_matching", url)>>
                      \o HeuristicClaims(Tail(sentences), claim_id + 1, url)

\* a variant whose fallback stage runs whatever the oracle stage produced
ExtractHeuristicAlways(extracted, text, url) ==
    extracted \o HeuristicClaims(SplitChars(text, {".", "!", "?"}), Len(extracted) + 1, url)

\* the fallback stage (lines 221-258): runs when the oracle stage left the
\* list empty
ExtractHeuristicStage(extracted, text, url) ==
    IF extracted = <<>>
    THEN HeuristicClaims(SplitChars(text, {".", "!", "?"}), 1, url)
    ELSE extracted

\* a variant that adds the demonstration claim only to an empty list
ExtractDemoIfNone(extracted, text, url) ==
    IF Contains(Lower(text), StrVaccine) /\ extracted = <<>>
    THEN Append(extracted,
                NewClaim(Len(extracted) + 1, StrVaccinesCauseAutism, Fl(95, 100),
                         "demo_hardcoded", url))
    ELSE extracted

\* the demonstration claim (lines 260-271)
ExtractDemoStage(extracted, text, url) ==
    IF Contains(Lower(text), StrVaccine)
    THEN Append(extracted,
                NewClaim(Len(extracted) + 1, StrVaccinesCauseAutism, Fl(95, 100),
                         "demo_hardcoded", url))
    ELSE extracted

\* extract_claims(text, url): the returned list and the store after the call
ExtractClaimsRun(db, key, reply, text, url) ==
    LET s1 == ExtractOracleStage(key, reply, url)
        s2 == ExtractHeuristicStage(s1, text, url)
        s3 == ExtractDemoStage(s2, text, url)
    IN  [claims |-> s3, db |-> StoreAll(db, s3)]

(***************************************************************************)
(* verify_claim                                                            *)
(***************************************************************************)
\* Python values a confidence_score can hold: a float, or (from the oracle's
\* JSON) a string or null
PyValue(t, x) == [t |-> t, sign |-> x.sign, digits |-> x.digits, exp |-> x.exp]

PyFloat(x) == PyValue("num", x)

\* the float a JSON number or a literal n/d denotes
PyNum(n, d) == PyFloat(Fl(n, d))

PyStr == PyValue("str", FloatZero)

PyNone == PyValue("none", FloatZero)

\* Python values an evidence field can hold: a list of strings, or (from the
\* oracle's JSON) a string or null
EvList(items) == [t |-> "list", items |-> items]

EvStr(chars) == [t |-> "str", items |-> chars]

EvNone == [t |-> "none", items |-> <<>>]

\* truth value of `verification["evidence"]`
Truthy(ev) == Len(ev.items) > 0

\* the verification dictionary of lines 295-303
InitialVerification(claim_text) ==
    [claim |-> claim_text, status |-> StrUnverified, confidence_score |-> PyNum(5, 10),
     evidence |-> EvList(<<>>), sources |-> <<>>, reasoning |-> <<>>,
     verification_method |-> "pattern_matching"]

\* 10^k
RECURSIVE Pow10(_)
Pow10(k) == IF k = 0 THEN 1 ELSE 10 * Pow10(k - 1)

RECURSIVE DigitsValue(_, _)
DigitsValue(s, acc) ==
    IF s = <<>> THEN acc
    ELSE DigitsValue(Tail(s),
                     10 * acc + (CHOOSE v \in 0..9 : ToString(v) = Head(s)))

\* float(s) for s matched by [\d\.]+ : a value, or ValueError (ok = FALSE)
ParseFloat(s) ==
    LET dots == {i \in DOMAIN s : s[i] = "."}
        digs == SelectSeq(s, LAMBDA c : c \in Digits)
    IN  IF Cardinality(dots) > 1 \/ digs = <<>>
        THEN [ok |-> FALSE, x |-> FloatZero]
        ELSE LET frac == IF dots = {} THEN 0 ELSE Len(s) - (CHOOSE i \in dots : TRUE)
             IN  [ok |-> TRUE, x |-> Fl(DigitsValue(digs, 0), Pow10(frac))]

\* number of leading characters of s other than c
RECURSIVE RunLenNot(_, _)
RunLenNot(s, c) == IF s # <<>> /\ Head(s) # c THEN 1 + RunLenNot(Tail(s), c) ELSE 0

\* the match of "status":\s*"([^"]+)" that starts at i, whose opening quote
\* would be at p: <<group(1)>>, or <<>> when there is none
StatusGroup(s, i, p, n) ==
    IF /\ StartsWithAt(s, StrStatusKey, i)
       /\ p <= Len(s) /\ s[p] = "\""
       /\ n >= 1 /\ p + n + 1 <= Len(s)
    THEN <<SubSeq(s, p + 1, p + n)>>
    ELSE <<>>

StatusGroupFrom(s, i, p) == StatusGroup(s, i, p, RunLenNot(From(s, p + 1), "\""))

StatusGroupAt(s, i) ==
    StatusGroupFrom(s, i, i + Len(StrStatusKey)
                          + RunLen(From(s, i + Len(StrStatusKey)), Whitespace))

\* the leftmost position where a regex matches, given the positions where it does
Leftmost(hits) == CHOOSE i \in hits : \A k \in hits : i <= k

StatusPick(s, hits) == IF hits = {} THEN <<>> ELSE StatusGroupAt(s, Leftmost(hits))

\* re.search(r'"status":\s*"([^"]+)"', s): <<group(1)>>, or <<>> for no match
StatusMatch(s) == StatusPick(s, {i \in DOMAIN s : StatusGroupAt(s, i) # <<>>})

\* the match of "confidence_score":\s*([\d\.]+) that starts at i, whose
\* number would start at p
ConfGroup(s, i, p, n) ==
    IF StartsWithAt(s, StrConfidenceKey, i) /\ n >= 1
    THEN <<SubSeq(s, p, p + n - 1)>>
    ELSE <<>>

ConfGroupFrom(s, i, p) == ConfGroup(s, i, p, RunLen(From(s, p), Digits \cup {"."}))

ConfGroupAt(s, i) ==
    ConfGroupFrom(s, i, i + Len(StrConfidenceKey)
                        + RunLen(From(s, i + Len(StrConfidenceKey)), Whitespace))

ConfPick(s, hits) == IF hits = {} THEN <<>> ELSE ConfGroupAt(s, Leftmost(hits))

\* re.search(r'"confidence_score":\s*([\d\.]+)', s): <<group(1)>>, or <<>>
ConfMatch(s) == ConfPick(s, {i \in DOMAIN s : ConfGroupAt(s, i) # <<>>})

\* re.findall(r'"([^"]+)"', s)
RECURSIVE FindQuoted(_)
FindQuoted(s) ==
    IF s = <<>> THEN <<>>
    ELSE IF Head(s) # "\"" THEN FindQuoted(Tail(s))
    ELSE LET rest == Tail(s)
             n == RunLenNot(rest, "\"")
         IN  IF n >= 1 /\ n < Len(rest)
             THEN <<SubSeq(rest, 1, n)>> \o FindQuoted(From(rest, n + 2))
             ELSE FindQuoted(rest)

\* verification["status"] = status_match.group(1), when there is a match
WithStatus(v, status_match) ==
    IF status_match # <<>> THEN [v EXCEPT !.status = status_match[1]] ELSE v

\* verification["confidence_score"] = x, a float
WithConfidence(v, x) == [v EXCEPT !.confidence_score = PyFloat(x)]

\* verification["evidence"] = evidence_matches[:3], when there is a match
WithEvidence(v, evidence_matches) ==
    IF evidence_matches # <<>>
    THEN [v EXCEPT !.evidence = EvList(Prefix(evidence_matches, EvidenceCap))]
    ELSE v

WithMethod(v, method) == [v EXCEPT !.verification_method = method]

\* lines 349-359 when conf_match matched and float() gave f.  float() raising
\* ValueError leaves the function's outer try: what was assigned before it
\* (the status) stays, the evidence and the method are skipped
RegexAfterFloat(v, f, evidence_matches) ==
    IF ~f.ok THEN v
    ELSE WithMethod(WithEvidence(WithConfidence(v, f.x), evidence_matches), "gemini_regex")

\* lines 349-359, v being the record after the status was extracted
RegexAfterStatus(v, conf_match, evidence_matches) ==
    IF conf_match # <<>>
    THEN RegexAfterFloat(v, ParseFloat(conf_match[1]), evidence_matches)
    ELSE WithMethod(WithEvidence(v, evidence_matches), "gemini_regex")

\* the regex fallback of lines 340-359
OracleRegexFallback(v, text_response) ==
    RegexAfterStatus(WithStatus(v, StatusMatch(text_response)),
                     ConfMatch(text_response), FindQuoted(text_response))

\* verification.update({...}) of lines 333-339; data is the parsed JSON
\* object, a key that is absent takes the default of .get
OracleStructured(v, data) ==
    [v EXCEPT !.status = IF data.has_status THEN data.status ELSE StrUnverified,
              !.confidence_score = IF data.has_confidence THEN data.confidence_score
                                   ELSE PyNum(5, 10),
              !.evidence = IF data.has_evidence THEN data.evidence ELSE EvList(<<>>),
              !.reasoning = IF data.has_reasoning THEN <<data.reasoning>> ELSE <<<<>>>>,
              !.verification_method = "gemini"]

\* the oracle stage of verify_claim (lines 305-363).  reply.kind is "raise",
\* "notext", "json" (json.loads succeeds; reply.is_dict tells whether the
\* value is an object) or "text" (json.loads raises JSONDecodeError)
VerifyOracleStage(key, reply, v) ==
    IF ~key THEN v
    ELSE CASE reply.kind = "json" ->
                  IF reply.is_dict THEN OracleStructured(v, reply.data) ELSE v
           [] reply.kind = "text" -> OracleRegexFallback(v, Strip(reply.text))
           [] OTHER -> v

\* re.findall(r'\b\w{4,}\b', s)
RECURSIVE FindTerms(_)
FindTerms(s) ==
    IF s = <<>> THEN <<>>
    ELSE IF ~IsWordChar(Head(s)) THEN FindTerms(Tail(s))
    ELSE LET run == RunLen(s, WordChars)
         IN  (IF run >= MinTermLen THEN <<SubSeq(s, 1, run)>> ELSE <<>>)
             \o FindTerms(From(s, run + 1))

\* match_count / len(key_terms) if key_terms else 0 (lines 386-387)
TermRatio(key_terms, content) ==
    IF key_terms # <<>>
    THEN Fl(Cardinality({i \in DOMAIN key_terms : Contains(content, key_terms[i])}),
           Len(key_terms))
    ELSE FloatZero

\* match_ratio of lines 382-387
MatchRatio(claim_text, page_content) ==
    TermRatio(FindTerms(Lower(claim_text)), Lower(page_content))

\* a variant that accepts any ratio above one half
RatioAboveHalf(ratio) == FLt(Fl(1, 2), ratio)

\* the acceptance test of line 389
RatioAccepted(ratio) == FLt(Fl(7, 10), ratio)

\* the test of line 366
LookupRuns(v) == ~Truthy(v.evidence)

\* verification["sources"].append({...}) of lines 375-379
WithWikipediaSource(v, url) ==
    [v EXCEPT !.sources = Append(@, [name |-> "Wikipedia", url |-> url])]

\* 0.6 + match_ratio * 0.3
LookupConfidence(match_ratio) == FAdd(Fl(6, 10), FMul(match_ratio, Fl(3, 10)))

\* lines 389-392, v having the source recorded.  evidence.append on a value
\* that is not a list raises AttributeError, caught at line 393
LookupAccept(v, match_ratio, summary) ==
    IF RatioAccepted(match_ratio) /\ v.evidence.t = "list"
    THEN WithConfidence([v EXCEPT !.evidence = EvList(Append(@.items, summary))],
                        LookupConfidence(match_ratio))
    ELSE v

\* the knowledge-lookup stage (lines 365-396).  wiki.kind is "search_error"
\* (wikipedia.search raises), "no_results", "page_error" (wikipedia.page
\* raises), "content_error" (reading the page's content raises, after the
\* source was recorded) or "page"
LookupStage(v, claim_text, wiki) ==
    IF ~LookupRuns(v) \/ wiki.kind \notin {"page", "content_error"} THEN v
    ELSE IF wiki.kind = "content_error" THEN WithWikipediaSource(v, wiki.url)
    ELSE LookupAccept(WithWikipediaSource(v, wiki.url),
                      MatchRatio(claim_text, wiki.content),
                      Prefix(wiki.summary, SummaryCeiling) \o StrEllipsis)

\* the test of line 399
OverrideApplies(claim_text) ==
    Contains(Lower(claim_text), StrVaccine) /\ Contains(Lower(claim_text), StrAutism)

\* a variant that overrides only when the earlier stages left no evidence
OverrideIfNoEvidence(v, claim_text) ==
    IF OverrideApplies(claim_text) /\ ~Truthy(v.evidence)
    THEN [v EXCEPT !.status = StrFalse,
                   !.evidence = EvList(<<StrEvidenceNoLink, StrEvidenceRetracted>>),
                   !.sources = <<[name |-> "CDC", url |-> "https://www.cdc.gov"],
                                 [name |-> "WHO", url |-> "https://www.who.int"]>>,
                   !.confidence_score = PyNum(95, 100),
                   !.verification_method = "demo_hardcoded"]
    ELSE v

\* the demonstration override (lines 398-410)
OverrideStage(v, claim_text) ==
    IF OverrideApplies(claim_text)
    THEN [v EXCEPT !.status = StrFalse,
                   !.evidence = EvList(<<StrEvidenceNoLink, StrEvidenceRetracted>>),
                   !.sources = <<[name |-> "CDC",
                                  url |-> "https://www.cdc.gov/vaccinesafety/concerns/autism.html"],
                                 [name |-> "WHO",
                                  url |-> "https://www.who.int/news-room/questions-and-answers/item/vaccines-and-immunization-myths-and-misconceptions"]>>,
                   !.confidence_score = PyNum(95, 100),
                   !.verification_method = "demo_hardcoded"]
    ELSE v

\* the guard of line 413
ResolutionApplies(v) == v.status = StrUnverified /\ Truthy(v.evidence)

\* lines 414 and 416 compare confidence_score with a float: a str or None
\* there raises TypeError out of verify_claim
ResolutionRaises(v) == ResolutionApplies(v) /\ v.confidence_score.t # "num"

\* status resolution (lines 412-419)
StatusResolution(v) ==
    IF ~ResolutionApplies(v) THEN v
    ELSE IF FLt(Fl(8, 10), v.confidence_score) THEN [v EXCEPT !.status = StrTrue]
    ELSE IF FLt(v.confidence_score, Fl(2, 10)) THEN [v EXCEPT !.status = StrFalse]
    ELSE [v EXCEPT !.status = StrPartiallyTrue]

\* the test of lines 290 and 422; "" stands for a claim_id of None or ''
IdResolves(db, claim_id) == claim_id # "" /\ claim_id \in DOMAIN db

\* the claim text verify_claim works on (lines 288-292)
EffectiveText(db, claim_text, claim_id) ==
    IF IdResolves(db, claim_id) THEN db[claim_id].text ELSE claim_text

\* claims_db[claim_id]["verification"] = verification (lines 421-423)
AttachVerification(db, claim_id, v) ==
    IF IdResolves(db, claim_id)
    THEN [db EXCEPT ![claim_id].verification = <<v>>]
    ELSE db

\* lines 412-425, v being the record after the override stage: the call
\* raises, or resolves the status, attaches the record and returns it.
\* stages keeps the record after the oracle, lookup and override stages
VerifyFinish(db, claim_id, stages, v) ==
    IF ResolutionRaises(v)
    THEN [raised |-> "TypeError", value |-> v, db |-> db, stages |-> stages]
    ELSE [raised |-> "", value |-> StatusResolution(v),
          db |-> AttachVerification(db, claim_id, StatusResolution(v)),
          stages |-> stages]

VerifyAfterLookup(db, claim_id, text, v1, v2) ==
    VerifyFinish(db, claim_id, <<v1, v2, OverrideStage(v2, text)>>, OverrideStage(v2, text))

VerifyAfterOracle(db, wiki, claim_id, text, v1) ==
    VerifyAfterLookup(db, claim_id, text, v1, LookupStage(v1, text, wiki))

VerifyOnText(db, key, reply, wiki, claim_id, text) ==
    VerifyAfterOracle(db, wiki, claim_id, text,
                      VerifyOracleStage(key, reply, InitialVerification(text)))

\* verify_claim(claim_text, claim_id): what the call raises or returns, and
\* the store after it.  When it raises, value is the record as it stood at
\* the raise; nothing is returned or attached
VerifyClaimRun(db, key, reply, wiki, claim_text, claim_id) ==
    VerifyOnText(db, key, reply, wiki, claim_id, EffectiveText(db, claim_text, claim_id))

(***************************************************************************)
(* calculate_source_credibility, ingest_url                                *)
(***************************************************************************)
\* sum(1 for vc in verified_claims if vc["verification"]["status"] == s)
RECURSIVE CountStatus(_, _)
CountStatus(verified_claims, s) ==
    IF verified_claims = <<>> THEN 0
    ELSE (IF Head(verified_claims).verification.status = s THEN 1 ELSE 0)
         + CountStatus(Tail(verified_claims), s)

\* a variant that clamps to [0, 1]
ClampToUnit(credibility) == FMax(Fl(0, 1), FMin(Fl(1, 1), credibility))

\* max(0.01, min(0.99, credibility))
ClampCredibility(credibility) == FMax(Fl(1, 100), FMin(Fl(99, 100), credibility))

\* calculate_source_credibility(verified_claims)
CalculateSourceCredibility(verified_claims) ==
    IF verified_claims = <<>> THEN Fl(5, 10)
    ELSE LET total == Len(verified_claims)
             true_count == CountStatus(verified_claims, StrTrue)
             false_count == CountStatus(verified_claims, StrFalse)
         IN  ClampCredibility(FAdd(Fl(5, 10), Fl(true_count - false_count, 2 * total)))

\* main_content: every paragraph followed by a blank line (lines 64-66)
RECURSIVE JoinParagraphs(_)
JoinParagraphs(paragraphs) ==
    IF paragraphs = <<>> THEN <<>>
    ELSE Head(paragraphs) \o StrParagraphBreak \o JoinParagraphs(Tail(paragraphs))

\* url.split("//")[-1].split("/")[0]
SourceDomain(url) ==
    LET parts == SplitStr(url, StrSlashSlash)
    IN  SplitStr(parts[Len(parts)], StrSlash)[1]

\* ingest_url(url).  fetch is what requests.get and the HTML parse give:
\* fetch.ok = FALSE when they raise (the failure record of lines 84-89, which
\* has the keys url, error and status only)
IngestUrl(url, fetch) ==
    IF fetch.ok
    THEN [failed |-> FALSE, url |-> url, error |-> "", title |-> fetch.title,
          content |-> Prefix(JoinParagraphs(fetch.paragraphs), ContentCeiling),
          source_domain |-> SourceDomain(url)]
    ELSE [failed |-> TRUE, url |-> url, error |-> fetch.error, title |-> "",
          content |-> <<>>, source_domain |-> <<>>]

\* the entry analyze_source appends for one claim (lines 540-544)
VerifiedEntry(claim, verification) ==
    [claim_text |-> claim.text, confidence |-> claim.confidence,
     verification |-> verification]

\* the report of lines 547-559
Analysis(url, content_data, claims, verified_claims) ==
    [url |-> url, title |-> content_data.title,
     source_domain |-> content_data.source_domain,
     claims_found |-> Len(claims), claims_verified |-> Len(verified_claims),
     verified_claims |-> verified_claims,
     score |-> CalculateSourceCredibility(verified_claims)]

(***************************************************************************)
(* Inputs: the texts, URLs and collaborator answers the calls are tried on  *)
(***************************************************************************)
\* ''
TextEmpty == <<>>

\* 'Vaccine news today.'
TextVaccineNews == <<"V","a","c","c","i","n","e"," ","n","e","w","s"," ","t","o","d","a","y",".">>

\* 'Smoking causes cancer. Hi.'
TextSmoking == <<"S","m","o","k","i","n","g"," ","c","a","u","s","e","s"," ","c","a","n","c","e","r","."," ","H","i",".">>

\* 'The vaccine was tested. All vaccines are safe!'
TextVaccineTested == <<"T","h","e"," ","v","a","c","c","i","n","e"," ","w","a","s"," ","t","e","s","t","e","d","."," ","A","l","l"," ","v","a","c","c","i","n","e","s"," ","a","r","e"," ","s","a","f","e","!">>

\* 'Paris is the capital of France.'
TextParisSentence == <<"P","a","r","i","s"," ","i","s"," ","t","h","e"," ","c","a","p","i","t","a","l"," ","o","f"," ","F","r","a","n","c","e",".">>

\* 'Studies show this leads to increased risk.'
TextStudies == <<"S","t","u","d","i","e","s"," ","s","h","o","w"," ","t","h","i","s"," ","l","e","a","d","s"," ","t","o"," ","i","n","c","r","e","a","s","e","d"," ","r","i","s","k",".">>

\* '1. Earth is round.\n2. Vaccines cause autism.\n'
ReplyLinesNumbered == <<"1","."," ","E","a","r","t","h"," ","i","s"," ","r","o","u","n","d",".","\n","2","."," ","V","a","c","c","i","n","e","s"," ","c","a","u","s","e"," ","a","u","t","i","s","m",".","\n">>

\* 'No claims found.'
ReplyLinesNoClaims == <<"N","o"," ","c","l","a","i","m","s"," ","f","o","u","n","d",".">>

\* ' \n'
ReplyLinesBlank == <<" ","\n">>

\* 'Vaccines cause autism.'
ClaimVaccinesAutism == <<"V","a","c","c","i","n","e","s"," ","c","a","u","s","e"," ","a","u","t","i","s","m",".">>

\* 'Paris is the capital of France'
ClaimParis == <<"P","a","r","i","s"," ","i","s"," ","t","h","e"," ","c","a","p","i","t","a","l"," ","o","f"," ","F","r","a","n","c","e">>

\* 'Paris is the capital city of France'
ClaimParisCity == <<"P","a","r","i","s"," ","i","s"," ","t","h","e"," ","c","a","p","i","t","a","l"," ","c","i","t","y"," ","o","f"," ","F","r","a","n","c","e">>

\* 'VACCINE safety and AUTISM'
ClaimUpperCase == <<"V","A","C","C","I","N","E"," ","s","a","f","e","t","y"," ","a","n","d"," ","A","U","T","I","S","M">>

\* 'Autism is rising'
ClaimAutismOnly == <<"A","u","t","i","s","m"," ","i","s"," ","r","i","s","i","n","g">>

\* 'Paris is the capital and most populous city of France.'
PageParisFull == <<"P","a","r","i","s"," ","i","s"," ","t","h","e"," ","c","a","p","i","t","a","l"," ","a","n","d"," ","m","o","s","t"," ","p","o","p","u","l","o","u","s"," ","c","i","t","y"," ","o","f"," ","F","r","a","n","c","e",".">>

\* 'Paris, capital of France'
PageParisPartial == <<"P","a","r","i","s",","," ","c","a","p","i","t","a","l"," ","o","f"," ","F","r","a","n","c","e">>

\* 'Lyon lies in France'
PageLyon == <<"L","y","o","n"," ","l","i","e","s"," ","i","n"," ","F","r","a","n","c","e">>

\* 'Vaccines cause autism is a safety myth'
PageVaccines == <<"V","a","c","c","i","n","e","s"," ","c","a","u","s","e"," ","a","u","t","i","s","m"," ","i","s"," ","a"," ","s","a","f","e","t","y"," ","m","y","t","h">>

\* 'Paris lies in France'
PageParisFrance == <<"P","a","r","i","s"," ","l","i","e","s"," ","i","n"," ","F","r","a","n","c","e">>

\* a text with CR, FF, NBSP or letters beyond ASCII: 'ÉCOLE VACCÌNE. The Vaccine\r\nwas\ftested.\r\n'
TextEcoleVaccine ==
    <<"É","C","O","L","E"," ","V","A","C","C","Ì","N","E","."," ","T","h","e"," ","V","a","c","c","i","n","e","\r","\n","w","a","s","\f","t","e","s","t","e","d",".","\r","\n">>

\* a text with CR, FF, NBSP or letters beyond ASCII: '1. Earth is round.\r\n\r\n 2.\fÉté is hot.\xa0\r\n'
ReplyLinesCrLf ==
    <<"1","."," ","E","a","r","t","h"," ","i","s"," ","r","o","u","n","d",".","\r","\n","\r","\n"," ","2",".","\f","É","t","é"," ","i","s"," ","h","o","t","."," ","\r","\n">>

\* a text with CR, FF, NBSP or letters beyond ASCII: 'Le café est à PARIS'
ClaimCafe ==
    <<"L","e"," ","c","a","f","é"," ","e","s","t"," ","à"," ","P","A","R","I","S">>

\* a text with CR, FF, NBSP or letters beyond ASCII: 'CAFÉ de Paris'
PageCafe ==
    <<"C","A","F","É"," ","d","e"," ","P","a","r","i","s">>

\* 'Paris is the capital of France.'
SummaryParis == <<"P","a","r","i","s"," ","i","s"," ","t","h","e"," ","c","a","p","i","t","a","l"," ","o","f"," ","F","r","a","n","c","e",".">>

\* 'e1'
EvidenceOne == <<"e","1">>

\* 'e2'
EvidenceTwo == <<"e","2">>

\* 'Mostly True'
StatusMostlyTrue == <<"M","o","s","t","l","y"," ","T","r","u","e">>

\* 'r'
ReasoningText == <<"r">>

\* 'Sure: "status": "True", "confidence_score": 1.5 because "x"'
RawStatusConf == <<"S","u","r","e",":"," ","\"","s","t","a","t","u","s","\"",":"," ","\"","T","r","u","e","\"",","," ","\"","c","o","n","f","i","d","e","n","c","e","_","s","c","o","r","e","\"",":"," ","1",".","5"," ","b","e","c","a","u","s","e"," ","\"","x","\"">>

\* '"status": "Unverified", "confidence_score": 0.1'
RawUnverifiedLow == <<"\"","s","t","a","t","u","s","\"",":"," ","\"","U","n","v","e","r","i","f","i","e","d","\"",","," ","\"","c","o","n","f","i","d","e","n","c","e","_","s","c","o","r","e","\"",":"," ","0",".","1">>

\* '"status": "False", "confidence_score": 1.2.3'
RawBadFloat == <<"\"","s","t","a","t","u","s","\"",":"," ","\"","F","a","l","s","e","\"",","," ","\"","c","o","n","f","i","d","e","n","c","e","_","s","c","o","r","e","\"",":"," ","1",".","2",".","3">>

\* 'I cannot tell.'
RawNoQuotes == <<"I"," ","c","a","n","n","o","t"," ","t","e","l","l",".">>

\* 'http://a.io/x'
UrlArticle == <<"h","t","t","p",":","/","/","a",".","i","o","/","x">>

\* 'b.org'
UrlBare == <<"b",".","o","r","g">>

\* answers of the generative oracle (model.generate_content)
Reply(kind, text, is_dict, data) ==
    [kind |-> kind, text |-> text, is_dict |-> is_dict, data |-> data]

\* a parsed JSON object; has_x = FALSE when the key x is absent
JsonData(has_status, status, has_confidence, confidence_score, has_evidence, evidence) ==
    [has_status |-> has_status, status |-> status,
     has_confidence |-> has_confidence, confidence_score |-> confidence_score,
     has_evidence |-> has_evidence, evidence |-> evidence,
     has_reasoning |-> has_status, reasoning |-> ReasoningText]

NoData == JsonData(FALSE, <<>>, FALSE, PyNone, FALSE, EvNone)

ReplyNotCalled == Reply("notcalled", <<>>, FALSE, NoData)

ReplyRaise == Reply("raise", <<>>, FALSE, NoData)

ReplyNoText == Reply("notext", <<>>, FALSE, NoData)

ReplyText(text) == Reply("text", text, FALSE, NoData)

ReplyJson(data) == Reply("json", <<>>, TRUE, data)

\* a JSON answer that is not an object, such as a list
ReplyJsonNonDict == Reply("json", <<>>, FALSE, NoData)

\* answers of the knowledge source (wikipedia.search, wikipedia.page)
Wiki(kind, url, content, summary) ==
    [kind |-> kind, url |-> url, content |-> content, summary |-> summary]

WikiNotCalled == Wiki("notcalled", "", <<>>, <<>>)

WikiFailure(kind) == Wiki(kind, "", <<>>, <<>>)

WikiPage(content) == Wiki("page", "https://en.wikipedia.org/wiki/Paris", content, SummaryParis)

\* what requests.get and the HTML parse give ingest_url
FetchFailed == [ok |-> FALSE, error |-> "connection refused", title |-> "", paragraphs |-> <<>>]

FetchPage(paragraphs) == [ok |-> TRUE, error |-> "", title |-> "News", paragraphs |-> paragraphs]

ExtractTexts ==
    {TextEmpty, TextVaccineNews, TextSmoking, TextVaccineTested, TextParisSentence,
     TextStudies, TextEcoleVaccine}

ExtractReplies ==
    {ReplyRaise, ReplyNoText, ReplyText(ReplyLinesNumbered), ReplyText(ReplyLinesNoClaims),
     ReplyText(ReplyLinesBlank), ReplyText(ReplyLinesCrLf)}

Urls == {UrlArticle, UrlBare}

ClaimIds == {"", "claim_1", "claim_2", "claim_7"}

VerifyTexts ==
    {ClaimVaccinesAutism, ClaimParis, ClaimParisCity, ClaimUpperCase, ClaimAutismOnly, ClaimCafe}

\* confidence_score values the oracle's JSON may carry
JsonConfidences ==
    {PyNum(9, 10), PyNum(15, 10), PyNum(-5, 10), PyNum(1, 10), PyNum(5, 10), PyNum(8, 10),
     PyNum(2, 10), PyStr, PyNone}

\* evidence values the oracle's JSON may carry
JsonEvidences == {EvList(<<EvidenceOne>>), EvList(<<>>), EvStr(EvidenceTwo), EvNone}

VerifyReplies ==
    {ReplyRaise, ReplyNoText, ReplyJsonNonDict,
     ReplyJson(JsonData(FALSE, <<>>, FALSE, PyNone, FALSE, EvNone)),
     ReplyJson(JsonData(TRUE, StrUnverified, FALSE, PyNone, TRUE, EvList(<<EvidenceOne>>))),
     ReplyText(RawStatusConf), ReplyText(RawUnverifiedLow), ReplyText(RawBadFloat),
     ReplyText(RawNoQuotes)}
    \cup {ReplyJson(JsonData(TRUE, st, TRUE, c, TRUE, ev)) :
              st \in {StrTrue, StrUnverified, StatusMostlyTrue},
              c \in JsonConfidences, ev \in JsonEvidences}

WikiAnswers ==
    {WikiFailure("search_error"), WikiFailure("no_results"), WikiFailure("page_error"),
     Wiki("content_error", "https://en.wikipedia.org/wiki/Paris", <<>>, <<>>),
     WikiPage(PageParisFull), WikiPage(PageParisPartial), WikiPage(PageParisFrance),
     WikiPage(PageLyon), WikiPage(PageCafe), WikiPage(PageVaccines)}

\* the smaller answer sets used where calls are sequenced
FewVerifyReplies ==
    {ReplyRaise,
     ReplyJson(JsonData(TRUE, StrTrue, TRUE, PyNum(9, 10), TRUE, EvList(<<EvidenceOne>>))),
     ReplyJson(JsonData(FALSE, <<>>, TRUE, PyStr, TRUE, EvList(<<EvidenceOne>>))),
     ReplyText(RawNoQuotes)}

FewWikiAnswers == {WikiFailure("no_results"), WikiPage(PageParisFull)}

FewExtractReplies == {ReplyRaise, ReplyText(ReplyLinesNumbered)}

FewExtractTexts == {TextVaccineNews, TextSmoking, TextVaccineTested}

FewVerifyTexts == {ClaimVaccinesAutism, ClaimParis}

FetchResults == {FetchFailed} \cup {FetchPage(<<t>>) : t \in FewExtractTexts}
                \cup {FetchPage(<<TextSmoking, TextVaccineNews>>)}

(***************************************************************************)
(* The server: the claim store and the calls made on it                    *)
(***************************************************************************)
VARIABLES
    GEMINI_API_KEY,  \* whether the oracle is configured (line 26)
    claims_db,       \* the claim store: claim id -> claim (line 35)
    returned,        \* history: every claim an extraction has returned
    pc,              \* "idle", or "verifying" inside analyze_source's loop
    job,             \* analyze_source's locals while its loop runs
    call,            \* the last call made and its inputs
    ret,             \* what the last completed call returned or raised
    stage_log,       \* the last verify_claim's record after each stage
    calls            \* number of calls made

vars == <<GEMINI_API_KEY, claims_db, returned, pc, job, call, ret, stage_log, calls>>

\* calls made in one behaviour of Spec
MaxCalls == 2

\* longest list given to calculate_source_credibility in SpecCredibility
MaxVerifications == 5

EmptyDb == [k \in {} |-> <<>>]

NoJob == [url |-> <<>>, content_data |-> <<>>, claims |-> <<>>, verified_claims |-> <<>>]

NoCall == [op |-> "none"]

\* what is remembered of a returned claim
Created(claims) ==
    {[id |-> claims[i].id, text |-> claims[i].text, confidence |-> claims[i].confidence] :
         i \in DOMAIN claims}

Init ==
    /\ GEMINI_API_KEY \in BOOLEAN
    /\ claims_db = EmptyDb
    /\ returned = {}
    /\ pc = "idle"
    /\ job = NoJob
    /\ call = NoCall
    /\ ret = NoCall
    /\ stage_log = <<>>
    /\ calls = 0

\* the oracle is asked only when it is configured
OracleAsked(reply) == (reply.kind # "notcalled") <=> GEMINI_API_KEY

\* the effect of one extract_claims call whose outcome is run
ExtractClaimsApply(run) ==
    /\ claims_db' = run.db
    /\ returned' = returned \cup Created(run.claims)
    /\ ret' = [op |-> "extract_claims", raised |-> "", value |-> run.claims]

\* extract_claims(text, url)
ExtractClaimsCall(text, url, reply) ==
    /\ pc = "idle"
    /\ OracleAsked(reply)
    /\ ExtractClaimsApply(ExtractClaimsRun(claims_db, GEMINI_API_KEY, reply, text, url))
    /\ call' = [op |-> "extract_claims", text |-> text, url |-> url, reply |-> reply]
    /\ calls' = calls + 1
    /\ UNCHANGED <<GEMINI_API_KEY, pc, job, stage_log>>

\* the knowledge source is asked only when the oracle stage left no evidence
\* (line 366): the answers it may give to a call whose oracle stage gave v1
WikiChoices(v1, wikis) == IF LookupRuns(v1) THEN wikis ELSE {WikiNotCalled}

\* the effect of one verify_claim call whose outcome is run
VerifyClaimApply(claim_text, claim_id, reply, wiki, run) ==
    /\ claims_db' = run.db
    /\ ret' = [op |-> "verify_claim", raised |-> run.raised, value |-> run.value]
    /\ stage_log' = run.stages
    /\ call' = [op |-> "verify_claim", claim_text |-> claim_text, claim_id |-> claim_id,
                reply |-> reply, wiki |-> wiki,
                resolved |-> IdResolves(claims_db, claim_id)]

\* verify_claim(claim_text, claim_id), the oracle answering reply and the
\* knowledge source, if asked, one of wikis
VerifyClaimCall(claim_text, claim_id, reply, wikis) ==
    /\ pc = "idle"
    /\ OracleAsked(reply)
    /\ LET text == EffectiveText(claims_db, claim_text, claim_id)
           v1 == VerifyOracleStage(GEMINI_API_KEY, reply, InitialVerification(text))
       IN  \E wiki \in WikiChoices(v1, wikis) :
               VerifyClaimApply(claim_text, claim_id, reply, wiki,
                                VerifyAfterOracle(claims_db, wiki, claim_id, text, v1))
    /\ calls' = calls + 1
    /\ UNCHANGED <<GEMINI_API_KEY, returned, pc, job>>

\* the effect of starting analyze_source on what ingest_url returned
AnalyzeExtract(url, content_data, run) ==
    /\ claims_db' = run.db
    /\ returned' = returned \cup Created(run.claims)
    /\ job' = [url |-> url, content_data |-> content_data,
               claims |-> run.claims, verified_claims |-> <<>>]
    /\ pc' = "verifying"
    /\ ret' = NoCall

AnalyzeIngested(url, reply, content_data) ==
    IF content_data.failed
    THEN /\ reply.kind = "notcalled"
         /\ ret' = [op |-> "analyze_source", raised |-> "KeyError", value |-> <<>>]
         /\ UNCHANGED <<claims_db, returned, pc, job>>
    ELSE /\ OracleAsked(reply)
         /\ AnalyzeExtract(url, content_data,
                           ExtractClaimsRun(claims_db, GEMINI_API_KEY, reply,
                                            content_data.content, url))

\* analyze_source(url), lines 530-534: ingest, then extract.  Reading
\* content_data["content"] of the failure record raises KeyError
AnalyzeStart(url, fetch, reply) ==
    /\ pc = "idle"
    /\ AnalyzeIngested(url, reply, IngestUrl(url, fetch))
    /\ call' = [op |-> "analyze_source", url |-> url, fetch |-> fetch, reply |-> reply]
    /\ calls' = calls + 1
    /\ UNCHANGED <<GEMINI_API_KEY, stage_log>>

\* the effect of one turn of the loop on claim, run being verify_claim's outcome
AnalyzeVerified(claim, run) ==
    /\ stage_log' = run.stages
    /\ claims_db' = run.db
    /\ IF run.raised # ""
       THEN /\ pc' = "idle"
            /\ job' = NoJob
            /\ ret' = [op |-> "analyze_source", raised |-> run.raised, value |-> <<>>]
       ELSE /\ pc' = pc
            /\ job' = [job EXCEPT !.verified_claims = Append(@, VerifiedEntry(claim, run.value))]
            /\ ret' = ret

\* verify_claim(claim["text"], claim["id"]) inside the loop
AnalyzeClaim(claim, reply, wikis) ==
    LET text == EffectiveText(claims_db, claim.text, claim.id)
        v1 == VerifyOracleStage(GEMINI_API_KEY, reply, InitialVerification(text))
    IN  \E wiki \in WikiChoices(v1, wikis) :
            AnalyzeVerified(claim, VerifyAfterOracle(claims_db, wiki, claim.id, text, v1))

\* one turn of the loop of lines 538-544; an exception out of verify_claim
\* leaves analyze_source
AnalyzeVerify(reply, wikis) ==
    /\ pc = "verifying"
    /\ Len(job.verified_claims) < Len(job.claims)
    /\ OracleAsked(reply)
    /\ AnalyzeClaim(job.claims[Len(job.verified_claims) + 1], reply, wikis)
    /\ UNCHANGED <<GEMINI_API_KEY, returned, call, calls>>

\* lines 546-561: the report, once the loop is over
AnalyzeFinish ==
    /\ pc = "verifying"
    /\ Len(job.verified_claims) = Len(job.claims)
    /\ ret' = [op |-> "analyze_source", raised |-> "",
               value |-> Analysis(job.url, job.content_data, job.claims, job.verified_claims)]
    /\ pc' = "idle"
    /\ job' = NoJob
    /\ UNCHANGED <<GEMINI_API_KEY, claims_db, returned, call, stage_log, calls>>

\* the sequenced system: any of the three tools, MaxCalls calls in a row
Extract ==
    /\ calls < MaxCalls
    /\ \E text \in FewExtractTexts, reply \in FewExtractReplies \cup {ReplyNotCalled} :
           ExtractClaimsCall(text, UrlArticle, reply)

Verify ==
    /\ calls < MaxCalls
    /\ \E claim_text \in FewVerifyTexts, claim_id \in {"", "claim_1", "claim_2"},
          reply \in FewVerifyReplies \cup {ReplyNotCalled} :
           VerifyClaimCall(claim_text, claim_id, reply, FewWikiAnswers)

Analyze ==
    /\ calls < MaxCalls
    /\ \E fetch \in FetchResults, reply \in FewExtractReplies \cup {ReplyNotCalled} :
           AnalyzeStart(UrlArticle, fetch, reply)

AnalyzeStep ==
    \E reply \in FewVerifyReplies \cup {ReplyNotCalled} : AnalyzeVerify(reply, FewWikiAnswers)

Next == Extract \/ Verify \/ Analyze \/ AnalyzeStep \/ AnalyzeFinish

Spec == Init /\ [][Next]_vars

(***************************************************************************)
(* Single calls on a store left by an earlier extraction, tried on the     *)
(* full answer sets                                                        *)
(***************************************************************************)
SeedTexts == {TextSmoking, TextVaccineTested}

\* the outcomes of one extract_claims call on the empty store, and the empty
\* store itself
SeedRuns ==
    {[claims |-> <<>>, db |-> EmptyDb]}
    \cup {ExtractClaimsRun(EmptyDb, FALSE, ReplyNotCalled, text, UrlArticle) : text \in SeedTexts}

InitSeeded ==
    /\ GEMINI_API_KEY \in BOOLEAN
    /\ \E seed \in SeedRuns :
           /\ claims_db = seed.db
           /\ returned = Created(seed.claims)
    /\ pc = "idle"
    /\ job = NoJob
    /\ call = NoCall
    /\ ret = NoCall
    /\ stage_log = <<>>
    /\ calls = 0

\* one verify_claim call
VerifyOnce ==
    /\ call.op = "none"
    /\ \E claim_text \in VerifyTexts, claim_id \in ClaimIds,
          reply \in VerifyReplies \cup {ReplyNotCalled} :
           VerifyClaimCall(claim_text, claim_id, reply, WikiAnswers)

SpecVerify == InitSeeded /\ [][VerifyOnce]_vars

\* one extract_claims call
ExtractOnce ==
    /\ call.op = "none"
    /\ \E text \in ExtractTexts, url \in Urls, reply \in ExtractReplies \cup {ReplyNotCalled} :
           ExtractClaimsCall(text, url, reply)

SpecExtract == InitSeeded /\ [][ExtractOnce]_vars

(***************************************************************************)
(* calculate_source_credibility on every list of up to MaxVerifications    *)
(* verifications                                                           *)
(***************************************************************************)
Statuses == {StrTrue, StrFalse, StrPartiallyTrue, StrUnverified}

\* an entry of verified_claims whose verification has status s
StatusEntry(s) ==
    VerifiedEntry(NewClaim(1, ClaimParis, Fl(85, 100), "gemini", UrlArticle),
                  [InitialVerification(ClaimParis) EXCEPT !.status = s])

VerificationLists ==
    UNION {[1..k -> {StatusEntry(s) : s \in Statuses}] : k \in 0..MaxVerifications}

InitCredibility ==
    /\ GEMINI_API_KEY = FALSE
    /\ claims_db = EmptyDb
    /\ returned = {}
    /\ pc = "idle"
    /\ job = NoJob
    /\ \E verified_claims \in VerificationLists :
           call = [op |-> "calculate_source_credibility", verified_claims |-> verified_claims]
    /\ ret = NoCall
    /\ stage_log = <<>>
    /\ calls = 0

Credibility ==
    /\ ret.op = "none"
    /\ ret' = [op |-> "calculate_source_credibility", raised |-> "",
               value |-> CalculateSourceCredibility(call.verified_claims)]
    /\ UNCHANGED <<GEMINI_API_KEY, claims_db, returned, pc, job, call, stage_log, calls>>

SpecCredibility == InitCredibility /\ [][Credibility]_vars

(***************************************************************************)
(* Properties                                                              *)
(***************************************************************************)
\* the last call made was op and it has ended, by a return or an exception
Completed(op) == call.op = op /\ ret.op = op /\ pc = "idle"

\* the last call made was op and it returned
Returned(op) == Completed(op) /\ ret.raised = ""

\* the claim text the last verify_claim call evaluated: the stored claim's
\* text when claim_id named a stored claim, the argument otherwise
TextUnderEvaluation ==
    IF call.resolved THEN claims_db[call.claim_id].text ELSE call.claim_text

\* fractions n/d, d > 0, for the values the spec's formulas have as real
\* numbers
Q(n, d) == [n |-> n, d |-> d]

QLt(a, b) == a.n * b.d < b.n * a.d

QEq(a, b) == a.n * b.d = b.n * a.d

\* |a - b|
BigDistance(a, b) == IF BigLt(a, b) THEN BigSub(b, a) ELSE BigSub(a, b)

\* the float x >= 0 is the fraction q >= 0 up to the rounding of float
\* arithmetic: |x - q| <= 2^-52.  With x = m * 2^-k this is
\* |m * q.d - q.n * 2^k| * 2^52 <= q.d * 2^k
Near(x, q) ==
    /\ x.sign = 1
    /\ ~BigLt(BigShl(ToBig(q.d), 52 - x.exp),
              BigShl(BigDistance(BigScale(Mantissa(x), q.d),
                                 BigShl(ToBig(q.n), 52 - x.exp)), 52))

\* x and y are the same float
FEq(x, y) == x.sign = y.sign /\ x.digits = y.digits /\ x.exp = y.exp

\* x <= y
FLe(x, y) == ~FLt(y, x)

InUnit(x) == FLe(Fl(0, 1), x) /\ FLe(x, Fl(1, 1))

\* C1: analyze_source on a URL whose fetch fails does not raise and returns a
\* report with claims_found = 0 and an error field.
C1_FailedFetchReturnsReport ==
    (Completed("analyze_source") /\ ~call.fetch.ok) =>
        /\ ret.raised = ""
        /\ ret.value.claims_found = 0
        /\ "error" \in DOMAIN ret.value

\* C2: verify_claim on a claim text containing both "vaccine" and "autism",
\* in any case, returns status False, confidence 0.95, exactly 2 evidence
\* items and exactly 2 sources, whatever the oracle and the knowledge source
\* answered.
C2_OverrideAlwaysWins ==
    (Completed("verify_claim") /\ OverrideApplies(TextUnderEvaluation)) =>
        /\ ret.raised = ""
        /\ ret.value.status = StrFalse
        /\ ret.value.confidence_score.t = "num"
        /\ FEq(ret.value.confidence_score, Fl(95, 100))
        /\ ret.value.evidence.t = "list"
        /\ Len(ret.value.evidence.items) = 2
        /\ Len(ret.value.sources) = 2

\* a call on vaccine-autism text whose oracle stage had answered True with
\* evidence of its own, and which returned the override's verdict
C2_Witness ==
    /\ Completed("verify_claim")
    /\ OverrideApplies(TextUnderEvaluation)
    /\ stage_log[2].status = StrTrue
    /\ Truthy(stage_log[2].evidence)
    /\ ret.value.status = StrFalse
    /\ Len(ret.value.sources) = 2

\* the verifications of a list whose status is s, counted by position
StatusCount(verified_claims, s) ==
    Cardinality({i \in DOMAIN verified_claims : verified_claims[i].verification.status = s})

\* 0.5 + (T - F) / (2N), as one fraction
RawCredibility(T, F, N) == Q(N + T - F, 2 * N)

\* q clamped to [0.01, 0.99]
Clamped(q) ==
    IF QLt(q, Q(1, 100)) THEN Q(1, 100)
    ELSE IF QLt(Q(99, 100), q) THEN Q(99, 100)
    ELSE q

\* the float x clamped to [0.01, 0.99]
ClampedFloat(x) ==
    IF FLt(x, Fl(1, 100)) THEN Fl(1, 100)
    ELSE IF FLt(Fl(99, 100), x) THEN Fl(99, 100)
    ELSE x

\* value is the formula's value: as the float expression 0.5 + (T - F)/(2N)
\* gives it, and as a real number up to the rounding of that expression
CredibilityRule(value, T, F, N) ==
    /\ N = 0 => FEq(value, Fl(1, 2))
    /\ N > 0 => /\ FEq(value, ClampedFloat(FAdd(Fl(1, 2), Fl(T - F, 2 * N))))
                /\ Near(value, Clamped(RawCredibility(T, F, N)))
    /\ FLe(Fl(1, 100), value) /\ FLe(value, Fl(99, 100))
    /\ (T = 3 /\ F = 0 /\ N = 3) => FEq(value, Fl(99, 100))
    /\ (T = 0 /\ F = 0 /\ N = 5) => FEq(value, Fl(1, 2))

\* C3: calculate_source_credibility returns 0.5 for an empty list and, for N
\* verifications of which T are True and F are False, 0.5 + (T - F)/(2N)
\* clamped to [0.01, 0.99]: always within [0.01, 0.99], 0.99 for T=3, F=0,
\* N=3, and 0.5 for T=0, F=0, N=5.
C3_CredibilityFormula ==
    Completed("calculate_source_credibility") =>
        CredibilityRule(ret.value,
                        StatusCount(call.verified_claims, StrTrue),
                        StatusCount(call.verified_claims, StrFalse),
                        Len(call.verified_claims))

\* three verifications, all True: the score is clamped down to 0.99
C3_Witness ==
    /\ Completed("calculate_source_credibility")
    /\ Len(call.verified_claims) = 3
    /\ StatusCount(call.verified_claims, StrTrue) = 3
    /\ FEq(ret.value, Fl(99, 100))

\* C4: every confidence produced lies in [0, 1]: that of every claim an
\* extraction returned, and the confidence_score of the Verification
\* verify_claim returns, whatever number the oracle's answer carries.
C4_ConfidenceInUnitInterval ==
    /\ \A c \in returned : InUnit(c.confidence)
    /\ (Returned("verify_claim") /\ ret.value.confidence_score.t = "num") =>
           InUnit(ret.value.confidence_score)

\* C5: verify_claim never raises to the caller, whatever the oracle and the
\* knowledge source answer: it returns one Verification record.
C5_VerifyNeverRaises ==
    Completed("verify_claim") => ret.raised = ""

\* positions of the demonstration claim in a returned list
DemoPositions(claims) ==
    {i \in DOMAIN claims : claims[i].extraction_method = "demo_hardcoded"}

\* the last claim of the list is the demonstration claim, under an id no
\* earlier claim of the list has
DemoClaimLast(claims) ==
    /\ DemoPositions(claims) = {Len(claims)}
    /\ claims[Len(claims)].text = StrVaccinesCauseAutism
    /\ FEq(claims[Len(claims)].confidence, Fl(95, 100))
    /\ \A i \in 1..(Len(claims) - 1) : claims[i].id # claims[Len(claims)].id

\* C6: extract_claims on text containing "vaccine" in any case returns a
\* list with exactly one claim of the fixed-override method, with text
\* "Vaccines cause autism." and confidence 0.95, placed after the claims of
\* the oracle or heuristic stage under an id distinct from theirs, whatever
\* the oracle did; on text without "vaccine" the list has no such claim.
C6_DemoClaimAppended ==
    Completed("extract_claims") =>
        IF Contains(Lower(call.text), StrVaccine)
        THEN DemoClaimLast(ret.value)
        ELSE DemoPositions(ret.value) = {}

\* the oracle returned claims of its own and the demonstration claim follows
\* them
C6_Witness ==
    /\ Completed("extract_claims")
    /\ Contains(Lower(call.text), StrVaccine)
    /\ Len(ret.value) = 3
    /\ ret.value[1].extraction_method = "gemini"
    /\ ret.value[3].extraction_method = "demo_hardcoded"

\* C7: claims are never deleted and their text and confidence never change:
\* every claim an extraction has returned is still in the claim store under
\* its id with the text and confidence it was created with.
C7_ClaimsKept ==
    \A c \in returned :
        /\ c.id \in DOMAIN claims_db
        /\ claims_db[c.id].text = c.text
        /\ claims_db[c.id].confidence = c.confidence

OracleTags == {"gemini", "gemini_regex"}

\* the returned evidence is the evidence the knowledge-lookup stage accepted
LookupSuppliedEvidence ==
    /\ stage_log[2].evidence # stage_log[1].evidence
    /\ ret.value.evidence = stage_log[2].evidence

\* C8: verification_method names the strategy that produced the returned
\* record: when the returned evidence was accepted by the knowledge-lookup
\* stage the method is the knowledge-lookup tag, none of the tags of the
\* other strategies, and the method is an oracle tag only when the returned
\* evidence is the oracle stage's.
C8_MethodNamesStrategy ==
    Returned("verify_claim") =>
        /\ LookupSuppliedEvidence =>
               ret.value.verification_method
                   \notin OracleTags \cup {"pattern_matching", "demo_hardcoded"}
        /\ ret.value.verification_method \in OracleTags =>
               ret.value.evidence = stage_log[1].evidence

LookupFailures == {"search_error", "no_results", "page_error", "content_error"}

\* the fraction of the claim's terms of four or more characters that occur
\* on the page
OverlapCount(terms, content) ==
    Cardinality({i \in DOMAIN terms : Contains(content, terms[i])})

OverlapOf(terms, content) ==
    IF terms = <<>> THEN Q(0, 1) ELSE Q(OverlapCount(terms, content), Len(terms))

OverlapRatio(claim_text, page_content) ==
    OverlapOf(FindTerms(Lower(claim_text)), Lower(page_content))

\* what the lookup stage did when it changed the evidence of v1 into that of
\* v2 on a page of the given term-overlap ratio.  The confidence_score is
\* the formula's value: as the float expression 0.6 + 0.3 * ratio gives it,
\* and as a real number up to the rounding of that expression
LookupAccepted(v1, v2, wiki, ratio) ==
    /\ wiki.kind = "page"
    /\ QLt(Q(7, 10), ratio)
    /\ v2.evidence.t = "list" /\ Len(v2.evidence.items) = 1
    /\ v2.confidence_score.t = "num"
    /\ FEq(v2.confidence_score, FAdd(Fl(6, 10), FMul(Fl(3, 10), Fl(ratio.n, ratio.d))))
    /\ Near(v2.confidence_score, Q(6 * ratio.d + 3 * ratio.n, 10 * ratio.d))
    /\ FLt(Fl(81, 100), v2.confidence_score)
    /\ FLe(v2.confidence_score, Fl(9, 10))
    /\ QEq(ratio, Q(1, 1)) => Near(v2.confidence_score, Q(9, 10))

LookupRule(v1, v2, wiki, ratio) ==
    /\ Truthy(v1.evidence) => (wiki.kind = "notcalled" /\ v2 = v1)
    /\ v2.evidence # v1.evidence => LookupAccepted(v1, v2, wiki, ratio)
    /\ v2.evidence = v1.evidence => v2.confidence_score = v1.confidence_score
    /\ wiki.kind \in LookupFailures => ~Truthy(v2.evidence)

    /\ Truthy(stage_log[2].evidence)
    /\ Near(stage_log[2].confidence_score, Q(825, 1000))

\* the lookup accepted a page on which every term of the claim occurs: the
\* stored float is 0.6 + 0.3 = 0.8999999999999999, the float next below 0.9
LookupAtFullOverlap ==
    /\ Completed("verify_claim")
    /\ call.wiki.kind = "page"
    /\ QEq(OverlapRatio(TextUnderEvaluation, call.wiki.content), Q(1, 1))
    /\ ~Truthy(stage_log[1].evidence)
    /\ Truthy(stage_log[2].evidence)
    /\ FLt(stage_log[2].confidence_score, Fl(9, 10))
    /\ Near(stage_log[2].confidence_score, Q(9, 10))

\* the status the resolution rule gives a record v entering it; a
\* confidence_score that is not a number meets neither bound
ResolvedStatus(v) ==
    IF v.status = StrUnverified /\ Truthy(v.evidence)
    THEN IF v.confidence_score.t = "num" /\ FLt(Fl(8, 10), v.confidence_score) THEN StrTrue
         ELSE IF v.confidence_score.t = "num" /\ FLt(v.confidence_score, Fl(2, 10))
              THEN StrFalse
         ELSE StrPartiallyTrue
    ELSE v.status

\* the returned record is the record after the override stage with its
\* status resolved, and does not pair evidence with status Unverified
ResolutionRule ==
    /\ ret.value.status = ResolvedStatus(stage_log[3])
    /\ ret.value = [stage_log[3] EXCEPT !.status = ret.value.status]
    /\ ~(Truthy(ret.value.evidence) /\ ret.value.status = StrUnverified)

\* C10: every verify_claim call returns a record in which a status still
\* Unverified after the oracle, lookup and override stages, with evidence
\* non-empty, has become True for confidence_score > 0.8, False for
\* confidence_score < 0.2 and Partially True otherwise, and any other
\* status is unchanged; no returned Verification has evidence together
\* with status Unverified.
C10_StatusResolution ==
    Completed("verify_claim") => ret.raised = "" /\ ResolutionRule

\* the part of the rule the code keeps: the calls that do return follow it
ResolutionWhenReturned ==
    Returned("verify_claim") => ResolutionRule

\* an Unverified record with evidence and confidence 0.1 was returned False
ResolvedFalse ==
    /\ Returned("verify_claim")
    /\ stage_log[3].status = StrUnverified
    /\ Truthy(stage_log[3].evidence)
    /\ FEq(stage_log[3].confidence_score, Fl(1, 10))
    /\ ret.value.status = StrFalse

\* an Unverified record with evidence and confidence exactly 0.8 was
\* returned Partially True
ResolvedPartiallyTrue ==
    /\ Returned("verify_claim")
    /\ stage_log[3].status = StrUnverified
    /\ Truthy(stage_log[3].evidence)
    /\ FEq(stage_log[3].confidence_score, Fl(8, 10))
    /\ ret.value.status = StrPartiallyTrue

\* the resolution was entered with a confidence_score that is not a number
\* and the call raised
ResolutionRaised ==
    /\ Completed("verify_claim")
    /\ stage_log[3].status = StrUnverified
    /\ Truthy(stage_log[3].evidence)
    /\ stage_log[3].confidence_score.t # "num"
    /\ ret.raised = "TypeError"

\* the override replaced the verdict of an accepted lookup
OverrideAfterLookup ==
    /\ Completed("verify_claim")
    /\ OverrideApplies(TextUnderEvaluation)
    /\ ~Truthy(stage_log[1].evidence)
    /\ Truthy(stage_log[2].evidence)
    /\ stage_log[2].status = StrTrue
    /\ ret.value.status = StrFalse

\* positions of the claims of a returned list extracted by method
MethodPositions(claims, method) ==
    {i \in DOMAIN claims : claims[i].extraction_method = method}

\* the claims of a returned list other than the demonstration claim
WithoutDemo(claims) ==
    SelectSeq(claims, LAMBDA c : c.extraction_method # "demo_hardcoded")

\* what a call returned, s1 being what its oracle stage produced: the
\* heuristic stage's claims when s1 is empty, s1 alone otherwise
FallbackRule(claims, s1, text, url) ==
    /\ s1 = <<>> =>
           /\ MethodPositions(claims, "gemini") = {}
           /\ WithoutDemo(claims) = HeuristicClaims(SplitChars(text, {".", "!", "?"}), 1, url)
    /\ s1 # <<>> =>
           /\ MethodPositions(claims, "pattern_matching") = {}
           /\ WithoutDemo(claims) = s1
    /\ MethodPositions(claims, "gemini") = {}
           \/ MethodPositions(claims, "pattern_matching") = {}
    /\ \A i \in MethodPositions(claims, "gemini") : FEq(claims[i].confidence, Fl(85, 100))

\* C11: in extract_claims the heuristic stage runs if and only if the oracle
\* stage produced no claim (oracle absent, failed, or nothing usable in its
\* answer): a returned list never holds both oracle-method and
\* heuristic-method claims, every oracle-method claim has confidence 0.85,
\* and a failure of the oracle never makes the call fail.
C11_HeuristicIffOracleEmpty ==
    call.op = "extract_claims" =>
        /\ Returned("extract_claims")
        /\ call.reply.kind \in {"notcalled", "raise", "notext"} =>
               MethodPositions(ret.value, "gemini") = {}
        /\ FallbackRule(ret.value,
                        ExtractOracleStage(GEMINI_API_KEY, call.reply, call.url),
                        call.text, call.url)

\* the oracle raised and the call returned the heuristic stage's claim
C11_Witness ==
    /\ Returned("extract_claims")
    /\ call.reply.kind = "raise"
    /\ call.text = TextSmoking
    /\ Len(ret.value) = 1
    /\ ret.value[1].extraction_method = "pattern_matching"

\* the oracle returned claims on a text the heuristic stage would have
\* taken a claim from, and only the oracle's claims were returned
C11_OracleWitness ==
    /\ Returned("extract_claims")
    /\ call.reply.kind = "text"
    /\ call.text = TextSmoking
    /\ Len(ret.value) = 2
    /\ MethodPositions(ret.value, "gemini") = {1, 2}

\* the entries of a report are one per claim found, each carrying the
\* verification of its own claim text
OneEntryPerClaim(analysis) ==
    /\ analysis.claims_verified = analysis.claims_found
    /\ Len(analysis.verified_claims) = analysis.claims_found
    /\ \A i \in DOMAIN analysis.verified_claims :
           analysis.verified_claims[i].verification.claim
               = analysis.verified_claims[i].claim_text

\* C12: analyze_source on a successful fetch is never aborted by the
\* verification of one claim failing: it returns a report with exactly one
\* entry per extracted claim, in extraction order, each with its
\* verification (claims_verified = claims_found), the score being computed
\* over all of them.
C12_LoopNeverAborts ==
    (Completed("analyze_source") /\ call.fetch.ok) =>
        /\ ret.raised = ""
        /\ OneEntryPerClaim(ret.value)
        /\ ret.value.score = CalculateSourceCredibility(ret.value.verified_claims)



====
